---------------------------- MODULE Spec2Model ----------------------------
(***************************************************************************)
(* A model of generator.mjs: the TEMPLATE regular expression, transformFile *)
(* and processConfig.                                                       *)
(*                                                                          *)
(* Texts are sequences of one-character strings.  Offsets into a text are   *)
(* 0-based, as in JavaScript: the character at offset p of text is          *)
(* text[p + 1].                                                             *)
(*                                                                          *)
(* The regular expressions are modelled as data (a sequence of atoms) and   *)
(* run by a matcher that takes, at every choice point, the first choice in  *)
(* the order ECMAScript's backtracking tries them that leads to a match, so *)
(* that the match it returns, and the captures in it, are those of          *)
(* RegExp.prototype.exec.                                                   *)
(* TEMPLATE names the group "name" in both of its alternatives; the model   *)
(* follows ECMAScript 2025, which accepts that.                             *)
(***************************************************************************)
EXTENDS Integers, Sequences, FiniteSets, TLC

----------------------------------------------------------------------------
(* Characters *)

Digits == {"0", "1", "2", "3", "4", "5", "6", "7", "8", "9"}

Lower ==
  {"a", "b", "c", "d", "e", "f", "g", "h", "i", "j", "k", "l", "m",
   "n", "o", "p", "q", "r", "s", "t", "u", "v", "w", "x", "y", "z"}

Upper ==
  {"A", "B", "C", "D", "E", "F", "G", "H", "I", "J", "K", "L", "M",
   "N", "O", "P", "Q", "R", "S", "T", "U", "V", "W", "X", "Y", "Z"}

\* ECMAScript's WordCharacters, which decide \b
WordChars == Digits \cup Lower \cup Upper \cup {"_"}

\* ECMAScript's LineTerminator, which "." does not match (no s flag)
LineTerminators == {"\n", "\r"}

\* The character classes the two expressions use
NameChars == Digits \cup Lower \cup Upper \cup {"_", "-"}
QuoteChars == {"'", "\""}

InClass(c, cls) ==
  CASE cls = "s"     -> c = "s"
    [] cls = "dot"   -> c \notin LineTerminators
    [] cls = "name"  -> c \in NameChars
    [] cls = "quote" -> c \in QuoteChars

----------------------------------------------------------------------------
(* Regular expressions as data *)

\* undefined: no text is equal to it
Undefined == <<"undefined">>

\* The characters of word, in order
Word(word) == [t |-> "word", word |-> word]
Lit(c) == Word(<<c>>)
WordBoundary == [t |-> "wb"]
\* cls{min,} greedy or lazy, captured as group grp when grp > 0
Rep(cls, min, greedy, grp) ==
  [t |-> "rep", cls |-> cls, min |-> min, greedy |-> greedy, grp |-> grp]
\* (cls): one character of cls, captured as group grp
Group(cls, grp) == [t |-> "grp", cls |-> cls, grp |-> grp]
\* \n: a back-reference to group grp
BackRef(grp) == [t |-> "ref", grp |-> grp]

TemplateWord == <<"t", "e", "m", "p", "l", "a", "t", "e">>
SlotWord == <<"s", "l", "o", "t">>

\* The string Array.prototype.join is given at line 99: "\s*" is a string
\* literal, in which \s is the character s, so the separator is the
\* expression s*
JoinSeparator == <<Rep("s", 0, TRUE, 0)>>

RECURSIVE JoinFrom(_, _)
JoinFrom(regexArray, i) ==
  IF i > Len(regexArray) THEN <<>>
  ELSE IF i = Len(regexArray) THEN regexArray[i]
  ELSE regexArray[i] \o JoinSeparator \o JoinFrom(regexArray, i + 1)

paddedRegex(regexArray) == JoinFrom(regexArray, 1)

\* /.*?/
LazyFiller == <<Rep("dot", 0, FALSE, 0)>>
\* /(['"])(?<name>[0-9A-Za-z_-]+)\1/: the groups are numbered by their place
\* in the whole expression (first), the back-reference is always \1
QuotedName(first) ==
  <<Group("quote", first), Rep("name", 1, TRUE, first + 1), BackRef(1)>>

TEMPLATE_REGEX_SELF_CLOSING ==
  paddedRegex(<<
    <<Lit("<")>>,
    <<Word(TemplateWord), WordBoundary>>,
    LazyFiller,
    <<WordBoundary, Word(SlotWord)>>,
    <<Lit("=")>>,
    QuotedName(1),
    LazyFiller,
    <<Lit("/")>>,
    <<Lit(">")>> >>)

\* Within TEMPLATE the groups of this expression are the third to the fifth
TEMPLATE_REGEX_WITH_DEFAULT ==
  paddedRegex(<<
    <<Lit("<")>>,
    <<Word(TemplateWord), WordBoundary>>,
    LazyFiller,
    <<WordBoundary, Word(SlotWord)>>,
    <<Lit("=")>>,
    QuotedName(3),
    LazyFiller,
    <<Lit(">")>>,
    <<Rep("dot", 0, TRUE, 5)>>,
    <<Lit("<")>>,
    <<Lit("/")>>,
    <<Word(TemplateWord)>>,
    <<Lit(">")>> >>)

\* The alternatives of TEMPLATE, in order
TEMPLATE == <<TEMPLATE_REGEX_SELF_CLOSING, TEMPLATE_REGEX_WITH_DEFAULT>>

NumGroups == 5
NameGroups == {2, 4}
DefaultGroup == 5

----------------------------------------------------------------------------
(* The matcher *)

Fail == [ok |-> FALSE]

NoCaptures == [g \in 1..NumGroups |-> Undefined]

\* text.slice(from, to) for 0 <= from <= to <= text.length
Slice(text, from, to) == SubSeq(text, from + 1, to)

IsWordChar(text, p) == p >= 0 /\ p < Len(text) /\ text[p + 1] \in WordChars

\* \b holds at offset p
AtWordBoundary(text, p) == IsWordChar(text, p - 1) # IsWordChar(text, p)

\* The number of consecutive characters of cls from offset p
RunLength(text, p, cls) ==
  LET stops == {q \in p..Len(text) :
                  q = Len(text) \/ ~InClass(text[q + 1], cls)}
  IN (CHOOSE q \in stops : \A r \in stops : q <= r) - p

StartsWith(text, p, word) ==
  /\ p + Len(word) <= Len(text)
  /\ \A i \in 1..Len(word) : text[p + i] = word[i]

\* The group that the back-references of TEMPLATE name: \1
RefGroup == 1

(***************************************************************************)
(* A match of a sequence of atoms is a path: the offset the match is at     *)
(* before each atom.  ECMAScript takes the first path in backtracking       *)
(* order: at each atom the first choice, in the atom's order of trying,     *)
(* from which the rest of the expression can still match.  Whether the rest *)
(* can match depends only on the offset and on what the group named by the  *)
(* back-references has captured, so a state of the matcher is the pair      *)
(* <<offset, capture of RefGroup>>.  The states each atom can be reached in *)
(* are computed first, then those among them from which the rest matches,   *)
(* and then the path is taken through these.                                *)
(***************************************************************************)

\* The states atom leads to from state s
Succ(atom, text, s) ==
  LET p == s[1]
      q == s[2]
  IN CASE atom.t = "word" ->
            IF StartsWith(text, p, atom.word)
            THEN {<<p + Len(atom.word), q>>} ELSE {}
       [] atom.t = "wb" ->
            IF AtWordBoundary(text, p) THEN {s} ELSE {}
       [] atom.t = "grp" ->
            IF p < Len(text) /\ InClass(text[p + 1], atom.cls)
            THEN {<<p + 1, IF atom.grp = RefGroup THEN <<text[p + 1]>>
                           ELSE q>>}
            ELSE {}
       [] atom.t = "ref" ->
            \* a back-reference to a group that has captured nothing
            \* matches the empty string
            IF q = Undefined THEN {s}
            ELSE IF StartsWith(text, p, q) THEN {<<p + Len(q), q>>}
            ELSE {}
       [] atom.t = "rep" ->
            {<<p + n, q>> : n \in atom.min..RunLength(text, p, atom.cls)}

\* The states after each of the atoms lo..hi of re, from the states before
\* atom lo.  (The range of atoms is halved: the recursion is as deep as the
\* logarithm of the number of atoms.)
RECURSIVE Reachable(_, _, _, _, _)
Reachable(re, text, lo, hi, states) ==
  IF lo = hi
  THEN <<UNION {Succ(re[lo], text, s) : s \in states}>>
  ELSE LET mid == (lo + hi) \div 2
           left == Reachable(re, text, lo, mid, states)
       IN IF left[Len(left)] = {}
          THEN left \o [k \in 1..(hi - mid) |-> {}]
          ELSE left \o Reachable(re, text, mid + 1, hi, left[Len(left)])

\* Of the states of reach before each of the atoms lo..hi, those from which
\* the rest of re matches; after holds those after atom hi.  reach[k] holds
\* the states before atom k.
RECURSIVE Viable(_, _, _, _, _, _)
Viable(re, text, reach, lo, hi, after) ==
  IF lo = hi
  THEN <<{s \in reach[lo] : Succ(re[lo], text, s) \cap after # {}}>>
  ELSE LET mid == (lo + hi) \div 2
           right == Viable(re, text, reach, mid + 1, hi, after)
       IN IF right[1] = {}
          THEN [k \in 1..(mid - lo + 1) |-> {}] \o right
          ELSE Viable(re, text, reach, lo, mid, right[1]) \o right

Max(ns) == CHOOSE n \in ns : \A m \in ns : m <= n
Min(ns) == CHOOSE n \in ns : \A m \in ns : n <= m

\* The state after atom on the first path from s: the first of atom's
\* choices, in its order of trying, that is in next, the states from which
\* the rest matches.  A greedy repetition tries the greatest number of
\* characters first, a lazy one the least.
FirstChoice(atom, text, s, next) ==
  IF atom.t = "rep"
  THEN LET ns == {n \in atom.min..RunLength(text, s[1], atom.cls) :
                    <<s[1] + n, s[2]>> \in next}
       IN <<s[1] + (IF atom.greedy THEN Max(ns) ELSE Min(ns)), s[2]>>
  ELSE CHOOSE t \in Succ(atom, text, s) : t \in next

\* The first path through the atoms lo..hi from at, the state before atom lo
\* with the captures so far: the state after atom hi, with the captures.
\* viable[k] holds the states before atom k from which the rest matches.
RECURSIVE Path(_, _, _, _, _, _)
Path(re, text, viable, lo, hi, at) ==
  IF lo = hi
  THEN LET atom == re[lo]
           t == FirstChoice(atom, text, at.s, viable[lo + 1])
       IN [s |-> t,
           caps |-> IF atom.t \in {"rep", "grp"} /\ atom.grp > 0
                    THEN [at.caps EXCEPT
                            ![atom.grp] = Slice(text, at.s[1], t[1])]
                    ELSE at.caps]
  ELSE LET mid == (lo + hi) \div 2
           left == Path(re, text, viable, lo, mid, at)
       IN IF left.s \in viable[mid + 1]
          THEN Path(re, text, viable, mid + 1, hi, left)
          ELSE left

\* The match that ends in the state end with its captures
Matched(end) == [ok |-> TRUE, end |-> end.s[1], caps |-> end.caps]

\* The match along the first path through viable
Along(re, text, caps, first, viable) ==
  Matched(Path(re, text, viable, 1, Len(re), [s |-> first, caps |-> caps]))

\* The match through the states of reach, if the end of re is among them
Through(re, text, caps, first, reach) ==
  IF reach[Len(re) + 1] = {} THEN Fail
  ELSE Along(re, text, caps, first,
             Viable(re, text, reach, 1, Len(re), reach[Len(re) + 1])
             \o <<reach[Len(re) + 1]>>)

\* The first match, in backtracking order, of re at offset p
MatchFrom(re, p, caps, text) ==
  Through(re, text, caps, <<p, caps[RefGroup]>>,
          <<{<<p, caps[RefGroup]>>}>>
          \o Reachable(re, text, 1, Len(re), {<<p, caps[RefGroup]>>}))

\* The alternatives alt.. of the disjunction at offset p, each from the
\* captures the disjunction was entered with: the first that matches
RECURSIVE MatchAlternatives(_, _, _, _)
RECURSIVE OrNext(_, _, _, _, _)
OrNext(r, regex, alt, p, text) ==
  IF r.ok THEN r ELSE MatchAlternatives(regex, alt + 1, p, text)

MatchAlternatives(regex, alt, p, text) ==
  IF alt > Len(regex) THEN Fail
  ELSE OrNext(MatchFrom(regex[alt], p, NoCaptures, text),
              regex, alt, p, text)

\* The value of a named group that several alternatives define: that of the
\* alternative that took part
NamedGroup(caps, groups) ==
  IF \E g \in groups : caps[g] # Undefined
  THEN caps[CHOOSE g \in groups : caps[g] # Undefined]
  ELSE Undefined

\* The match r at offset p, as the fields of the match object that
\* transformFile reads
MatchObject(r, p) ==
  IF r.ok
  THEN [ok |-> TRUE, index |-> p, length |-> r.end - p,
        name |-> NamedGroup(r.caps, NameGroups),
        default |-> r.caps[DefaultGroup]]
  ELSE [ok |-> FALSE, index |-> p]

\* The leftmost of the matches ms
Leftmost(ms) ==
  IF \A m \in ms : ~m.ok THEN Fail
  ELSE CHOOSE m \in ms : m.ok /\ \A o \in ms : o.ok => m.index <= o.index

\* regex.exec(text) from lastIndex: the leftmost match
Exec(regex, text, lastIndex) ==
  Leftmost({MatchObject(MatchAlternatives(regex, 1, p, text), p) :
              p \in lastIndex..Len(text)})

\* [...text.matchAll(regex)]
RECURSIVE MatchAllFrom(_, _, _)
RECURSIVE MatchAllAfter(_, _, _)
MatchAllAfter(m, regex, text) ==
  IF ~m.ok THEN <<>>
  ELSE <<[index |-> m.index, length |-> m.length, name |-> m.name,
          default |-> m.default]>>
       \o MatchAllFrom(regex, text,
                       IF m.length = 0 THEN m.index + 1
                       ELSE m.index + m.length)

MatchAllFrom(regex, text, lastIndex) ==
  MatchAllAfter(Exec(regex, text, lastIndex), regex, text)

MatchAll(regex, text) == MatchAllFrom(regex, text, 0)

----------------------------------------------------------------------------
(* The files the program reads *)

\* What reading a path gives: the content of the file there, or the error
\* code readFileSync throws with
File(content) == [kind |-> "file", content |-> content]
NoFile == [kind |-> "ENOENT", content |-> <<>>]
Unreadable == [kind |-> "EACCES", content |-> <<>>]
IsDirectory == [kind |-> "EISDIR", content |-> <<>>]

\* existsSync(path)
existsSync(file) == file.kind # "ENOENT"

\* The slot name that the documents of the model use, and so the one
\* template file, n.html, that the template directory may hold
SlotName == <<"n">>

----------------------------------------------------------------------------
(* Source documents *)

\* The number of padding characters between two tokens of a tag
MaxPad == 1
\* The number of tags that follow one another in a document
MaxTags == 2

RECURSIVE Repeat(_, _)
Repeat(c, k) == IF k = 0 THEN <<>> ELSE <<c>> \o Repeat(c, k - 1)

Whitespace == {" "}
\* the padding characters of the model's tags: whitespace, and two
\* characters that are not
PadChars == Whitespace \cup {"s", "x"}
NoPad == <<>>
Pads == {NoPad} \cup {Repeat(c, k) : c \in PadChars, k \in 1..MaxPad}

DQuote == "\""
SQuote == "'"
\* The quoted value of the slot attribute, as written
GoodValues == {<<DQuote>> \o SlotName \o <<DQuote>>,
               <<SQuote>> \o SlotName \o <<SQuote>>}
\* a value with a character outside [0-9A-Za-z_-], and mismatched quotes
BadValues == {<<DQuote>> \o SlotName \o <<" ", "b", DQuote>>,
              <<DQuote>> \o SlotName \o <<SQuote>>}
PlainValue == <<DQuote>> \o SlotName \o <<DQuote>>

\* A tag of a source document, token by token with pad between the tokens:
\* self-closing, or (shape "default") with a body and a closing tag
TagText(tag) ==
  LET pad == tag.pad
      open == <<"<">> \o pad \o TemplateWord \o <<" ">> \o SlotWord \o pad
              \o <<"=">> \o pad \o tag.value \o pad
  IN IF tag.shape = "self"
     THEN open \o <<"/">> \o pad \o <<">">>
     ELSE open \o <<">">> \o tag.body \o <<"<">> \o pad \o <<"/">> \o pad
          \o TemplateWord \o pad \o <<">">>

SelfTag(pad, value) ==
  [shape |-> "self", pad |-> pad, value |-> value, body |-> <<>>]
DefaultTag(pad, value, body) ==
  [shape |-> "default", pad |-> pad, value |-> value, body |-> body]

\* <template slot="n"/>
PlainSelfTag == SelfTag(NoPad, PlainValue)

\* Default bodies: plain, empty, holding "/>", spanning two lines, and
\* holding a tag
PlainBody == <<"D">>
Bodies == {PlainBody, <<>>, <<"a", "/", ">", "b">>, <<"D", "\n", "E">>,
           TagText(PlainSelfTag)}

\* The tags a document of one tag may hold: each of the body, the padding
\* and the attribute value varied on its own
TagForms ==
  {SelfTag(pad, PlainValue) : pad \in Pads}
  \cup {SelfTag(NoPad, v) : v \in GoodValues \cup BadValues}
  \cup {DefaultTag(NoPad, PlainValue, body) : body \in Bodies}
  \cup {DefaultTag(pad, PlainValue, PlainBody) : pad \in Pads}
  \cup {DefaultTag(NoPad, v, PlainBody) : v \in GoodValues \cup BadValues}

\* The tags of a document of several tags
BasicTags == {PlainSelfTag, DefaultTag(NoPad, PlainValue, <<"X">>),
              DefaultTag(NoPad, PlainValue, <<"Y">>)}

\* Text before and after the tags; none holds "<template" or "</template>"
Before == {<<>>, <<"H", "i", " ">>, <<"<", "s", "l", "o", "t", ">">>}
After == {<<>>, <<"!">>, <<"<", "b", "r", "/", ">">>, <<"\n", "Z">>}
\* Text between two tags
Between == {<<>>, <<"\n">>}

TagSeqs ==
  {<<>>} \cup {<<t>> : t \in TagForms}
  \cup UNION {[1..k -> BasicTags] : k \in 2..MaxTags}

\* A document: pre, then the tags with sep between them, then suf
Documents ==
  {[pre |-> b, tags |-> ts, sep |-> s, suf |-> a] :
     b \in Before, a \in After,
     ts \in {ts \in TagSeqs : Len(ts) < 2}, s \in {<<>>}}
  \cup {[pre |-> b, tags |-> ts, sep |-> s, suf |-> a] :
     b \in Before, a \in After,
     ts \in {ts \in TagSeqs : Len(ts) >= 2}, s \in Between}

EmptyDocument == [pre |-> <<>>, tags |-> <<>>, sep |-> <<>>, suf |-> <<>>]

RECURSIVE TagsText(_, _, _)
TagsText(tags, sep, i) ==
  IF i > Len(tags) THEN <<>>
  ELSE TagText(tags[i]) \o (IF i < Len(tags) THEN sep ELSE <<>>)
       \o TagsText(tags, sep, i + 1)

\* The text of a document
DocText(d) == d.pre \o TagsText(d.tags, d.sep, 1) \o d.suf

\* What the template file n.html may be: missing, unreadable, a directory,
\* empty, a text, or a text holding a tag
TemplateContents == {<<>>, <<"T">>, <<"U">> \o TagText(PlainSelfTag)}
TemplateFiles ==
  {NoFile, Unreadable, IsDirectory} \cup {File(c) : c \in TemplateContents}

\* The template directory is only read.  It is modelled as far as the
\* program has looked at it: a function from the names looked up to what
\* reading <name>.html gives, an answer being drawn at the first look and
\* kept from then on.
NothingSeen == <<>>
Seen(dir, name) ==
  IF name \in DOMAIN dir THEN {dir[name]} ELSE TemplateFiles
Reveal(dir, name, file) ==
  [n \in DOMAIN dir \cup {name} |-> IF n = name THEN file ELSE dir[n]]

----------------------------------------------------------------------------
(* File names and paths *)

\* The number of files in the data directory
MaxFiles == 2

Dot == "."
HtmlExt == <<Dot, "h", "t", "m", "l">>
TxtExt == <<Dot, "t", "x", "t">>
IndexWord == <<"i", "n", "d", "e", "x">>
IndexHtml == IndexWord \o HtmlExt

RECURSIVE JoinDots(_, _)
JoinDots(parts, i) ==
  IF i > Len(parts) THEN <<>>
  ELSE parts[i] \o (IF i < Len(parts) THEN <<Dot>> ELSE <<>>)
       \o JoinDots(parts, i + 1)

\* A file name written from its dot-separated parts and its extension
NameText(f) == JoinDots(f.parts, 1) \o f.ext

\* index.html, a.html, a.b.html, b.index.html, a.txt, and a name with no
\* extension
FileNames ==
  {[parts |-> <<IndexWord>>, ext |-> HtmlExt],
   [parts |-> <<<<"a">>>>, ext |-> HtmlExt],
   [parts |-> <<<<"a">>, <<"b">>>>, ext |-> HtmlExt],
   [parts |-> <<<<"b">>, IndexWord>>, ext |-> HtmlExt],
   [parts |-> <<<<"a">>>>, ext |-> TxtExt],
   [parts |-> <<<<"a">>>>, ext |-> <<>>]}

\* The offset after the last "." of name, 0 when it has none
RECURSIVE LastDot(_, _)
LastDot(name, i) ==
  IF i = 0 THEN 0
  ELSE IF name[i] = Dot THEN i
  ELSE LastDot(name, i - 1)

\* path.extname of a name without directories: from the last "." on, and
\* empty when there is none or the name starts with it
extname(name) ==
  LET i == LastDot(name, Len(name)) IN
  IF i <= 1 THEN <<>> ELSE SubSeq(name, i, Len(name))

EndsWith(text, suffix) ==
  /\ Len(suffix) <= Len(text)
  /\ SubSeq(text, Len(text) - Len(suffix) + 1, Len(text)) = suffix

\* path.basename(name, ext) of a name without directories
basename(name, ext) ==
  IF EndsWith(name, ext) /\ name # ext
  THEN SubSeq(name, 1, Len(name) - Len(ext))
  ELSE name

\* path.dirname of a name without directories
dirname(name) == <<Dot>>

\* text.split(".")
RECURSIVE SplitFrom(_, _, _)
SplitFrom(text, i, part) ==
  IF i > Len(text) THEN <<part>>
  ELSE IF text[i] = Dot THEN <<part>> \o SplitFrom(text, i + 1, <<>>)
  ELSE SplitFrom(text, i + 1, Append(part, text[i]))

split(text) == SplitFrom(text, 1, <<>>)

\* path.join of segments none of which holds a separator or is "..": a path
\* is the sequence of its segments, those empty or "." being dropped
IsSegment(seg) == seg # <<>> /\ seg # <<Dot>>
join(segments) == SelectSeq(segments, IsSegment)

\* resolve(config.output_dir): the output directory
OutputDir == <<"p", "u", "b", "l", "i", "c">>

\* Lines 238-242 of processConfig
OutFilePath(filename) ==
  LET outFileDir == dirname(filename)
      names == split(basename(filename, HtmlExt))
  IN IF Len(names) = 1 /\ names[1] = IndexWord
     THEN join(<<OutputDir, IndexHtml>>)
     ELSE join(<<OutputDir, outFileDir>> \o names \o <<IndexHtml>>)

\* The documents of the files of a data directory
SmallDocuments ==
  {EmptyDocument,
   [pre |-> <<"H", "i", " ">>, tags |-> <<>>, sep |-> <<>>, suf |-> <<>>],
   [pre |-> <<>>, tags |-> <<PlainSelfTag>>, sep |-> <<>>, suf |-> <<>>],
   [pre |-> <<"H", "i", " ">>,
    tags |-> <<DefaultTag(NoPad, PlainValue, PlainBody)>>,
    sep |-> <<>>, suf |-> <<"!">>]}

\* A file of the data directory: its name, and what reading it gives
DirEntries ==
  {[name |-> NameText(f), from |-> f, doc |-> d, file |-> File(DocText(d))] :
     f \in FileNames, d \in SmallDocuments}
  \cup {[name |-> NameText(f), from |-> f, doc |-> EmptyDocument,
         file |-> Unreadable] : f \in FileNames}

\* readdirSync(dataDir): up to MaxFiles files of different names
DataDirs ==
  {dir \in UNION {[1..k -> DirEntries] : k \in 1..MaxFiles} :
     \A i, j \in 1..Len(dir) : i < j => dir[i].name # dir[j].name}

----------------------------------------------------------------------------
(* State *)

VARIABLES
  dataDir,          \* what readdirSync(dataDir) gives, with each file
  fileIdx,          \* the place in dataDir of the file forEach is at
  pcC,              \* processConfig's position
  written,          \* the files written so far: their text, by path
  doc,              \* the document the source file was written from
  srcFile,          \* what reading srcFilePath gives
  templateDir,      \* the template directory, as far as it has been seen
  pc,               \* transformFile's position
  data,             \* the source text read
  templates,        \* the matches of TEMPLATE in data
  idx,              \* the place in templates of the match the loop is at
  start,            \* the offset in data up to which it has been copied
  transformedData,  \* the text built so far
  frags,            \* the fragment appended for each match so far
  lookups,          \* the number of existsSync calls on template files
  console,          \* the lines written to the console
  completion        \* how the call of transformFile ended

configVars == <<dataDir, fileIdx, pcC, written>>

vars == <<dataDir, fileIdx, pcC, written, doc, srcFile, templateDir, pc,
          data, templates, idx, start, transformedData, frags, lookups,
          console, completion>>

----------------------------------------------------------------------------
(* transformFile *)

Running == [kind |-> "running", value |-> Undefined]
Return(value) == [kind |-> "return", value |-> value]

\* A JavaScript string, or undefined, taken as a condition
Truthy(v) == v # Undefined /\ v # <<>>

\* A line of the console: its text, with the values put into it
Line(text, args) == [text |-> text, args |-> args]

\* console.error(...) of handleFileError, by the error's code
handleFileError(code) ==
  CASE code = "ENOENT" -> Line("File not found", <<>>)
    [] code = "EACCES" -> Line("Permission denied", <<>>)
    [] OTHER -> Line("An error occurred", <<>>)

\* Lines 198-204 with the two branches in the other order: the default body
\* is preferred to the template file
FragmentDefaultFirst(match, file) ==
  IF match.default # Undefined THEN match.default
  ELSE IF Truthy(match.name) /\ existsSync(file) THEN file.content
  ELSE <<>>

\* Lines 198-204: what is appended for match, file being what reading its
\* template file gives (not an error)
Fragment(match, file) ==
  IF Truthy(match.name) /\ existsSync(file)
  THEN file.content
  ELSE IF match.default # Undefined THEN match.default ELSE <<>>

\* Line 210 without "|| data"
ReturnBuilt(built, text) == built

\* Line 210: transformedData || data
ReturnValue(built, text) == IF Truthy(built) THEN built ELSE text

\* Lines 211-214 with a return of what was built so far in the catch block
ReturnPartial(built) == Return(built)

\* Lines 211-214: the catch block has no return, so the call returns
\* undefined whatever was built
CatchCompletion(built) == Return(Undefined)

\* Lines 188-190, and the catch block when the source cannot be read
TFRead ==
  /\ pc = "call"
  /\ IF srcFile.kind = "file"
     THEN /\ data' = srcFile.content
          /\ templates' = MatchAll(TEMPLATE, data')
          /\ pc' = IF Len(templates') > 0 THEN "loop" ELSE "return"
          /\ UNCHANGED <<console, completion>>
     ELSE /\ console' = Append(console, handleFileError(srcFile.kind))
          /\ completion' = CatchCompletion(<<>>)
          /\ pc' = "done"
          /\ UNCHANGED <<data, templates>>
  /\ transformedData' = <<>>
  /\ start' = 0
  /\ idx' = 1
  /\ UNCHANGED <<doc, srcFile, templateDir, frags, lookups>>
  /\ UNCHANGED configVars

\* Lines 194-206: one iteration of the loop, and the catch block when the
\* template file exists and cannot be read
TFIterate ==
  /\ pc = "loop"
  /\ idx <= Len(templates)
  /\ LET match == templates[idx]
         span == Slice(data, start, match.index)
         looked == Truthy(match.name)
     IN \E file \in IF looked THEN Seen(templateDir, match.name)
                    ELSE {NoFile} :
        /\ templateDir' = IF looked
                          THEN Reveal(templateDir, match.name, file)
                          ELSE templateDir
        /\ lookups' = IF looked THEN lookups + 1 ELSE lookups
        /\ IF looked /\ existsSync(file) /\ file.kind # "file"
           THEN /\ transformedData' = transformedData \o span
                /\ console' = Append(console, handleFileError(file.kind))
                /\ completion' = CatchCompletion(transformedData')
                /\ pc' = "done"
                /\ UNCHANGED <<frags, start, idx>>
           ELSE /\ transformedData' =
                     transformedData \o span \o Fragment(match, file)
                /\ frags' = Append(frags, Fragment(match, file))
                /\ start' = match.index + match.length
                /\ idx' = idx + 1
                /\ pc' = IF idx = Len(templates) THEN "tail" ELSE "loop"
                /\ UNCHANGED <<console, completion>>
  /\ UNCHANGED <<doc, srcFile, data, templates>>
  /\ UNCHANGED configVars

\* Lines 207-210: the rest of the source after the last match, when there
\* was a match, and the return
TFFinish ==
  /\ pc \in {"tail", "return"}
  /\ transformedData' =
       IF pc = "tail"
       THEN transformedData \o Slice(data, start, Len(data))
       ELSE transformedData
  /\ completion' = Return(ReturnValue(transformedData', data))
  /\ pc' = "done"
  /\ UNCHANGED <<doc, srcFile, templateDir, data, templates, idx, start,
                 frags, lookups, console>>
  /\ UNCHANGED configVars

\* The locals of transformFile before a call
TFLocals ==
  /\ data = <<>>
  /\ templates = <<>>
  /\ idx = 1
  /\ start = 0
  /\ transformedData = <<>>
  /\ frags = <<>>
  /\ lookups = 0
  /\ completion = Running

\* transformFile is called on a source file, with a template directory
Init ==
  /\ dataDir = <<>>
  /\ fileIdx = 1
  /\ pcC = "idle"
  /\ written = <<>>
  /\ doc \in Documents
  /\ srcFile \in {File(DocText(doc))}
       \cup (IF doc = EmptyDocument THEN {NoFile, Unreadable} ELSE {})
  /\ templateDir = NothingSeen
  /\ pc = "call"
  /\ TFLocals
  /\ console = <<>>

Next == TFRead \/ TFIterate \/ TFFinish

Spec == Init /\ [][Next]_vars

----------------------------------------------------------------------------
(* processConfig *)

\* Lines 232-245: the next file of the directory is an HTML file, and
\* transformFile is called on it
PCTransform ==
  /\ pcC = "next"
  /\ fileIdx <= Len(dataDir)
  /\ extname(dataDir[fileIdx].name) = HtmlExt
  /\ doc' = dataDir[fileIdx].doc
  /\ srcFile' = dataDir[fileIdx].file
  /\ pc' = "call"
  /\ data' = <<>>
  /\ templates' = <<>>
  /\ idx' = 1
  /\ start' = 0
  /\ transformedData' = <<>>
  /\ frags' = <<>>
  /\ lookups' = 0
  /\ completion' = Running
  /\ pcC' = "wait"
  /\ UNCHANGED <<dataDir, fileIdx, written, templateDir, console>>

\* Lines 248-259: transformFile has returned.  The lines that create the
\* directory and write the file are commented out: the only effect is the
\* line on the console.
PCReport ==
  /\ pcC = "wait"
  /\ pc = "done"
  /\ LET filename == dataDir[fileIdx].name IN
     console' = Append(console,
       IF Truthy(completion.value)
       THEN Line("Converted and wrote", <<filename, OutFilePath(filename)>>)
       ELSE Line("No data from", <<filename>>))
  /\ fileIdx' = fileIdx + 1
  /\ pcC' = "next"
  /\ pc' = "idle"
  /\ UNCHANGED <<dataDir, written, doc, srcFile, templateDir, data,
                 templates, idx, start, transformedData, frags, lookups,
                 completion>>

\* Lines 260-262: the next file is not an HTML file
PCSkip ==
  /\ pcC = "next"
  /\ fileIdx <= Len(dataDir)
  /\ extname(dataDir[fileIdx].name) # HtmlExt
  /\ fileIdx' = fileIdx + 1
  /\ UNCHANGED <<dataDir, pcC, written>>
  /\ UNCHANGED <<doc, srcFile, templateDir, pc, data, templates, idx, start,
                 transformedData, frags, lookups, console, completion>>

\* Line 263: forEach has been through every file
PCEnd ==
  /\ pcC = "next"
  /\ fileIdx > Len(dataDir)
  /\ pcC' = "done"
  /\ UNCHANGED <<dataDir, fileIdx, written>>
  /\ UNCHANGED <<doc, srcFile, templateDir, pc, data, templates, idx, start,
                 transformedData, frags, lookups, console, completion>>

\* processConfig is called on a data directory
ConfigInit ==
  /\ dataDir \in DataDirs
  /\ fileIdx = 1
  /\ pcC = "next"
  /\ written = <<>>
  /\ doc = EmptyDocument
  /\ srcFile = NoFile
  /\ templateDir = NothingSeen
  /\ pc = "idle"
  /\ TFLocals
  /\ console = <<>>

ConfigNext ==
  PCTransform \/ PCReport \/ PCSkip \/ PCEnd \/ TFRead \/ TFIterate \/ TFFinish

SpecConfig == ConfigInit /\ [][ConfigNext]_vars

----------------------------------------------------------------------------
(* What the claims speak of *)

\* transformFile has been through the whole loop and has returned at line 210
Completed ==
  /\ pc = "done"
  /\ srcFile.kind = "file"
  /\ Len(frags) = Len(templates)

\* transformFile has left the loop by the catch block: a template file that
\* exists could not be read
TemplateReadFailed ==
  /\ pc = "done"
  /\ \E n \in DOMAIN templateDir :
       templateDir[n].kind \notin {"file", "ENOENT"}

\* A template file was found for no occurrence
NothingResolved == \A n \in DOMAIN templateDir : templateDir[n] = NoFile

\* word is in text
HasWord(text, word) ==
  \E p \in 0..(Len(text) - Len(word)) : StartsWith(text, p, word)

OpenTemplate == <<"<">> \o TemplateWord
CloseTemplate == <<"<", "/">> \o TemplateWord
\* text holds neither "<template" nor "</template"
NoTagIn(text) == ~HasWord(text, OpenTemplate) /\ ~HasWord(text, CloseTemplate)

\* The fragments fs woven into text in place of the occurrences occs: from
\* occurrence i on, each fragment followed by the text up to the next
\* occurrence, or to the end
RECURSIVE WeaveFrom(_, _, _, _)
WeaveFrom(text, occs, fs, i) ==
  IF i > Len(occs) THEN <<>>
  ELSE fs[i]
       \o Slice(text, occs[i].index + occs[i].length,
                IF i < Len(occs) THEN occs[i + 1].index ELSE Len(text))
       \o WeaveFrom(text, occs, fs, i + 1)

Weave(text, occs, fs) ==
  IF occs = <<>> THEN text
  ELSE Slice(text, 0, occs[1].index) \o WeaveFrom(text, occs, fs, 1)

----------------------------------------------------------------------------
(* C1 *)

\* C1: the text transformFile returns is the source with each occurrence
\* replaced by its fragment and everything else kept, also when that text
\* is empty: a document that is exactly one self-closing tag whose template
\* is not found gives the empty string.
C1_ReturnsWovenText ==
  Completed => completion = Return(Weave(data, templates, frags))

----------------------------------------------------------------------------
(* C2 *)

\* The fragment the priority order gives occurrence i: the content of its
\* template file when there is one, else its default body, else nothing
ByPriority(i) ==
  LET file == templateDir[templates[i].name] IN
  IF file.kind = "file" THEN file.content
  ELSE IF templates[i].default # Undefined THEN templates[i].default
  ELSE <<>>

\* C2: the fragment appended for every occurrence is the content of the
\* template file <name>.html when that file exists (also for a self-closing
\* occurrence, also when the content is empty), otherwise the default body
\* of the occurrence when it has one, otherwise the empty string.
C2_FragmentByPriority ==
  /\ Len(frags) <= Len(templates)
  /\ \A i \in 1..Len(frags) :
       /\ templates[i].name \in DOMAIN templateDir
       /\ frags[i] = ByPriority(i)

\* C2: an occurrence with a default body whose template file exists and is
\* empty has got the empty string, and not its default
C2_EmptyFileWins ==
  /\ Completed
  /\ \E i \in 1..Len(frags) :
       /\ templates[i].default \notin {Undefined, <<>>}
       /\ templateDir[templates[i].name] = File(<<>>)
       /\ frags[i] = <<>>

----------------------------------------------------------------------------
(* C3 *)

\* The default bodies of tags, one after another
RECURSIVE BodiesFrom(_, _)
BodiesFrom(tags, i) ==
  IF i > Len(tags) THEN <<>> ELSE tags[i].body \o BodiesFrom(tags, i + 1)

\* The offset in the tags' text at which tag i starts, nothing being
\* between the tags
RECURSIVE TagOffset(_, _)
TagOffset(tags, i) ==
  IF i = 1 THEN 0 ELSE TagOffset(tags, i - 1) + Len(TagText(tags[i - 1]))

\* The document is two or more with-default tags one after another on one
\* line, and nothing else
TagsInARow ==
  /\ srcFile.kind = "file"
  /\ Len(doc.tags) >= 2
  /\ \A i \in 1..Len(doc.tags) : doc.tags[i].shape = "default"
  /\ doc.sep = <<>> /\ doc.pre = <<>> /\ doc.suf = <<>>

\* C3: with-default tags one after another on one line are one occurrence
\* each, every occurrence ending at the closing tag of its own tag, and with
\* no template found the output is the default bodies one after another
\* ("XY" for the bodies X and Y).
C3_OneOccurrencePerTag ==
  /\ (pc # "call" /\ TagsInARow) =>
       /\ Len(templates) = Len(doc.tags)
       /\ \A i \in 1..Len(doc.tags) :
            /\ templates[i].index = TagOffset(doc.tags, i)
            /\ templates[i].length = Len(TagText(doc.tags[i]))
            /\ templates[i].default = doc.tags[i].body
  /\ (Completed /\ TagsInARow /\ NothingResolved) =>
       completion = Return(BodiesFrom(doc.tags, 1))

----------------------------------------------------------------------------
(* C4 *)

\* The document is P <template slot="n"> D </template> S, none of P, D and
\* S holding "<template" or "</template"
OneDefaultTag ==
  /\ srcFile.kind = "file"
  /\ Len(doc.tags) = 1
  /\ doc.tags[1].shape = "default"
  /\ doc.tags[1].pad = NoPad
  /\ doc.tags[1].value = PlainValue
  /\ NoTagIn(doc.pre) /\ NoTagIn(doc.tags[1].body) /\ NoTagIn(doc.suf)

\* C4: the output for P <template slot="n"> D </template> S is P D S when
\* there is no template file n.html, and P T S when the file holds T.
C4_SurroundingTextKept ==
  (Completed /\ OneDefaultTag) =>
    completion =
      Return(doc.pre
             \o (IF SlotName \in DOMAIN templateDir
                    /\ templateDir[SlotName].kind = "file"
                 THEN templateDir[SlotName].content
                 ELSE doc.tags[1].body)
             \o doc.suf)

----------------------------------------------------------------------------
(* C5 *)

\* C5, as the claim has it: a template file that exists and cannot be read
\* makes transformFile throw, the error reaching its caller.
C5_FailurePropagates ==
  TemplateReadFailed => completion.kind = "throw"

\* C5, amended: the failure to read a template file that exists is caught
\* in transformFile, which reports it on the console and returns undefined,
\* so no text, partial or full, is returned for the document; a pass in
\* which no read fails, a template not being found included, returns a
\* text, so the caller can tell the two apart.
C5_FailureReported ==
  /\ TemplateReadFailed =>
       /\ completion = Return(Undefined)
       /\ \A n \in DOMAIN templateDir :
            templateDir[n].kind \notin {"file", "ENOENT"} =>
              console = <<handleFileError(templateDir[n].kind)>>
  /\ Completed =>
       /\ completion.kind = "return"
       /\ completion.value # Undefined
       /\ console = <<>>

\* C5: the second template file of a document could not be read, some text
\* having been built before
C5_FailedAfterText ==
  /\ TemplateReadFailed
  /\ transformedData # <<>>
  /\ completion = Return(Undefined)

----------------------------------------------------------------------------
(* C6 *)

IsWhitespace(pad) == \A i \in 1..Len(pad) : pad[i] \in Whitespace

\* The document is one tag and nothing else, its tokens written with some
\* padding between them, its slot value a name in matching quotes, and its
\* default body, if it has one, plain
OnePaddedTag ==
  /\ srcFile.kind = "file"
  /\ Len(doc.tags) = 1
  /\ doc.pre = <<>> /\ doc.suf = <<>>
  /\ doc.tags[1].value \in GoodValues
  /\ doc.tags[1].body \in {<<>>, PlainBody}

\* C6: a tag whose tokens have whitespace, or nothing, between them is one
\* occurrence, with the name of its slot; a tag whose tokens have any other
\* character between them is none.
C6_WhitespacePadding ==
  (pc # "call" /\ OnePaddedTag) =>
    IF IsWhitespace(doc.tags[1].pad)
    THEN Len(templates) = 1 /\ templates[1].name = SlotName
    ELSE templates = <<>>

----------------------------------------------------------------------------
(* C7 *)

\* value is a name of one or more characters of [0-9A-Za-z_-] between two
\* quotes of the same kind
ValidValue(value) ==
  /\ Len(value) >= 3
  /\ value[1] \in QuoteChars
  /\ value[Len(value)] = value[1]
  /\ \A i \in 2..(Len(value) - 1) : value[i] \in NameChars

\* C7: a tag is an occurrence only if the whole value of its slot attribute
\* is a name in matching quotes, and the name of an occurrence is that whole
\* value, never a prefix of it.
C7_WholeValueIsName ==
  (pc # "call" /\ srcFile.kind = "file" /\ Len(doc.tags) = 1) =>
    IF ValidValue(doc.tags[1].value)
    THEN \A i \in 1..Len(templates) :
           templates[i].name =
             SubSeq(doc.tags[1].value, 2, Len(doc.tags[1].value) - 1)
    ELSE templates = <<>>

----------------------------------------------------------------------------
(* C8 *)

\* C8: a source in which no occurrence is found is returned as it is, the
\* template directory not being looked at; and in a source without the word
\* "template" no occurrence is found and no error is reported.
C8_NoOccurrenceUnchanged ==
  /\ (Completed /\ templates = <<>>) =>
       /\ completion = Return(data)
       /\ data = DocText(doc)
       /\ lookups = 0
  /\ (pc # "call" /\ srcFile.kind = "file"
      /\ ~HasWord(DocText(doc), TemplateWord)) =>
       /\ templates = <<>>
       /\ console = <<>>

\* C8: a source that holds malformed tag-like text and not the word
\* "template" has been returned as it is
C8_MalformedTextKept ==
  /\ Completed
  /\ HasWord(data, <<"<">>)
  /\ ~HasWord(data, TemplateWord)
  /\ templates = <<>>
  /\ completion = Return(data)

----------------------------------------------------------------------------
(* C9 *)

\* A tag, as the text of a default body or within a template file
InnerTag == TagText(PlainSelfTag)

\* C9: there is one lookup for each occurrence found in the source, and the
\* text put in for an occurrence is not looked through for tags: a tag in
\* the content of a template file is in the output as text, and so is, when
\* no template is found, a tag in the default body of a tag of the source.
C9_SinglePass ==
  Completed =>
    /\ lookups = Len(templates)
    /\ \A n \in DOMAIN templateDir :
         (templateDir[n].kind = "file"
          /\ HasWord(templateDir[n].content, InnerTag)) =>
           HasWord(completion.value, templateDir[n].content)
    /\ \A i \in 1..Len(doc.tags) :
         (NothingResolved /\ doc.tags[i].shape = "default"
          /\ HasWord(doc.tags[i].body, InnerTag)) =>
           HasWord(completion.value, doc.tags[i].body)

----------------------------------------------------------------------------
(* C10 *)

\* The path the output of the file named f goes to: <output>/index.html for
\* index.html, else <output>/<p1>/.../<pk>/index.html, p1..pk being the
\* parts of the name between dots, without the extension
ExpectedPath(f) ==
  IF f.parts = <<IndexWord>> THEN <<OutputDir, IndexHtml>>
  ELSE <<OutputDir>> \o f.parts \o <<IndexHtml>>

\* processConfig has reported that the file called name gave text
Converted(name) ==
  \E k \in 1..Len(console) :
    console[k].text = "Converted and wrote" /\ console[k].args[1] = name

\* C10: when processConfig has finished, the output directory holds, for
\* every .html file of the data directory whose transformation gave text, a
\* file at the path that goes with its name, and no other file; that file
\* holds the text, as seen when transformFile has just returned it.
C10_OutputsWritten ==
  /\ (pc = "idle" /\ console # <<>>
      /\ console[Len(console)].text = "Converted and wrote") =>
       LET name == console[Len(console)].args[1]
           j == CHOOSE j \in 1..Len(dataDir) : dataDir[j].name = name
           path == ExpectedPath(dataDir[j].from)
       IN /\ path \in DOMAIN written
          /\ written[path] = completion.value
  /\ pcC = "done" =>
       DOMAIN written =
         {ExpectedPath(dataDir[i].from) :
            i \in {j \in 1..Len(dataDir) :
                     /\ dataDir[j].from.ext = HtmlExt
                     /\ Converted(dataDir[j].name)}}

=============================================================================
